---- MODULE Spec2Model ----
(***************************************************************************)
(* The account actions of horizon (services/horizon/internal/actions):     *)
(* AccountInfo, GetAccountsHandler.GetResourcePage and the three batch     *)
(* loaders loadSigners, loadTrustlines and loadData.                       *)
(*                                                                         *)
(* Account identifiers are the numbers 1..NumAccounts, ordered as the      *)
(* store orders addresses; 0 stands for the empty cursor.  An error value  *)
(* is the chain of its messages, outermost first; <<>> is the nil error.   *)
(* A pointer result is <<>> (nil) or <<resource>>; a nil slice is <<>>.    *)
(***************************************************************************)
EXTENDS Integers, Sequences, FiniteSets, TLC

\* ---------------------------------------------------------------- bounds
NumAccounts == 3

MaxPage == 2

MaxRows == 1

MaxLoadRows == 3

MaxLimit == 2

Accounts == 1..NumAccounts

\* ---------------------------------------------------------------- errors
NoErr == <<>>

ErrNoRows == <<"sql: no rows in result set">>

ErrConn == <<"driver: bad connection">>

\* errors.Wrap: nil stays nil, otherwise the label is put in front of the cause.
Wrap(err, label) == IF err = NoErr THEN NoErr ELSE <<label>> \o err

\* What a handler hands back: the value, the error and the store calls it issued.
Ret(val, err, calls) == [val |-> val, err |-> err, calls |-> calls]

\* One store call as the store sees it: the query, the identifiers it was given
\* and whether it succeeded.
Call(op, ids, res) == [op |-> op, ids |-> ids, ok |-> res.err = NoErr]

\* ------------------------------------------------------------ store rows
\* The rows of a result set, one per identifier of ids in the order returned;
\* the second column numbers the row within the result, so rows are distinct.
AccountRows(ids) == [i \in 1..Len(ids) |-> [AccountID |-> ids[i], Balance |-> i]]

SignerRows(ids) == [i \in 1..Len(ids) |-> [Account |-> ids[i], Signer |-> "GSIGNER", Weight |-> i]]

TrustLineRows(ids) == [i \in 1..Len(ids) |-> [AccountID |-> ids[i], Balance |-> i]]

DataRows(ids) == [i \in 1..Len(ids) |-> [AccountID |-> ids[i], Name |-> i]]

Ok(rows) == [err |-> NoErr, rows |-> rows]

Failed(err) == [err |-> err, rows |-> <<>>]

\* ------------------------------------------------------------ batch loaders
MapPut(m, k, v) == [x \in (DOMAIN m) \cup {k} |-> IF x = k THEN v ELSE m[x]]

EmptyMap == <<>>

RECURSIVE groupData(_, _, _)
groupData(records, i, data) ==
    IF i > Len(records) THEN data
    ELSE LET record == records[i]
         IN  groupData(records, i + 1,
                 IF record.AccountID \in DOMAIN data
                 THEN [data EXCEPT ![record.AccountID] = Append(@, record)]
                 ELSE MapPut(data, record.AccountID, <<record>>))

RECURSIVE groupTrustlines(_, _, _)
groupTrustlines(records, i, trustLines) ==
    IF i > Len(records) THEN trustLines
    ELSE LET record == records[i]
         IN  groupTrustlines(records, i + 1,
                 IF record.AccountID \in DOMAIN trustLines
                 THEN [trustLines EXCEPT ![record.AccountID] = Append(@, record)]
                 ELSE MapPut(trustLines, record.AccountID, <<record>>))

\* groupSigners putting each row in front of its account's list.
RECURSIVE groupSignersPrepend(_, _, _)
groupSignersPrepend(records, i, signers) ==
    IF i > Len(records) THEN signers
    ELSE LET record == records[i]
         IN  groupSignersPrepend(records, i + 1,
                 IF record.Account \in DOMAIN signers
                 THEN [signers EXCEPT ![record.Account] = <<record>> \o @]
                 ELSE MapPut(signers, record.Account, <<record>>))

RECURSIVE groupSigners(_, _, _)
groupSigners(records, i, signers) ==
    IF i > Len(records) THEN signers
    ELSE LET record == records[i]
         IN  groupSigners(records, i + 1,
                 IF record.Account \in DOMAIN signers
                 THEN [signers EXCEPT ![record.Account] = Append(@, record)]
                 ELSE MapPut(signers, record.Account, <<record>>))

\* ------------------------------------------------------------ indexed store
\* handler.HistoryQ.  A scripted store answers each query with the response it
\* holds, whatever the arguments; a database-backed store computes the answer
\* from its tables: signerAccounts, the accounts the signer signs for, and
\* assetAccounts, the accounts holding a trust line to the asset.  Its pages are
\* strictly ordered by account identifier.
Min(a, b) == IF a < b THEN a ELSE b

RECURSIVE SortedAsc(_)
SortedAsc(S) ==
    IF S = {} THEN <<>>
    ELSE LET m == CHOOSE x \in S : \A y \in S : x <= y
         IN  <<m>> \o SortedAsc(S \ {m})

Reverse(s) == [i \in 1..Len(s) |-> s[Len(s) + 1 - i]]

Repeat(a, n) == [i \in 1..n |-> a]

\* The page of a result ordered by account identifier: the rows strictly after
\* the cursor in the requested order, at most limit of them.
AfterCursor(pq, a) ==
    \/ pq.cursor = 0
    \/ pq.order = "asc" /\ a > pq.cursor
    \/ pq.order = "desc" /\ a < pq.cursor

ApplyPage(idsAsc, pq) ==
    LET ordered == IF pq.order = "asc" THEN idsAsc ELSE Reverse(idsAsc)
        rest == SelectSeq(ordered, LAMBDA a : AfterCursor(pq, a))
    IN  SubSeq(rest, 1, Min(Len(rest), pq.limit))

InSeq(a, ids) == \E i \in 1..Len(ids) : ids[i] = a

AccountsForAsset(q, asset, pq) ==
    IF q.scripted THEN q.forAsset
    ELSE Ok(AccountRows(ApplyPage(SortedAsc(q.db.assetAccounts), pq)))

AccountsForSigner(q, signer, pq) ==
    IF q.scripted THEN q.forSigner
    ELSE Ok(SignerRows(ApplyPage(SortedAsc(q.db.signerAccounts), pq)))

SignersForAccounts(q, accounts) ==
    IF q.scripted THEN q.signers
    ELSE Ok(SignerRows(SelectSeq(SortedAsc(Accounts), LAMBDA a : InSeq(a, accounts))))

GetTrustLinesByAccountsID(q, accounts) ==
    IF q.scripted THEN q.trustlines
    ELSE Ok(TrustLineRows(SelectSeq(SortedAsc(q.db.assetAccounts),
                                    LAMBDA a : InSeq(a, accounts))))

GetAccountDataByAccountsID(q, accounts) ==
    IF q.scripted THEN q.data
    ELSE Ok(DataRows(<<>>))

\* ------------------------------------------------------------ loaders
loadData(historyQ, accounts) ==
    LET res == GetAccountDataByAccountsID(historyQ, accounts)
    IN  IF res.err # NoErr THEN [val |-> EmptyMap, err |-> res.err]
        ELSE [val |-> groupData(res.rows, 1, EmptyMap), err |-> NoErr]

loadTrustlines(historyQ, accounts) ==
    LET res == GetTrustLinesByAccountsID(historyQ, accounts)
    IN  IF res.err # NoErr THEN [val |-> EmptyMap, err |-> res.err]
        ELSE [val |-> groupTrustlines(res.rows, 1, EmptyMap), err |-> NoErr]

loadSigners(historyQ, accounts) ==
    LET res == SignersForAccounts(historyQ, accounts)
    IN  IF res.err # NoErr THEN [val |-> EmptyMap, err |-> res.err]
        ELSE [val |-> groupSigners(res.rows, 1, EmptyMap), err |-> NoErr]

\* ------------------------------------------------------------ resource adapter
PopulateAccountEntry(record, d, s, t) ==
    [kind |-> "Account", AccountID |-> record.AccountID, Balance |-> record.Balance,
     Data |-> d, Signers |-> s, Balances |-> t]

PopulateAccountSigner(record) ==
    [kind |-> "AccountSigner", AccountID |-> record.Account,
     Signer |-> record.Signer, Weight |-> record.Weight]

\* PopulateAccount fills dest and reports an error; when it fails, dest is left
\* with what was filled in before the failure.
PopulateAccount(coreRecord, coreData, coreSigners, coreTrustlines, perr) ==
    IF perr # NoErr
    THEN [resource |-> [kind |-> "Account", AccountID |-> coreRecord.AccountID,
                        Balance |-> coreRecord.Balance,
                        Data |-> <<>>, Signers |-> <<>>, Balances |-> <<>>],
          err |-> perr]
    ELSE [resource |-> [kind |-> "Account", AccountID |-> coreRecord.AccountID,
                        Balance |-> coreRecord.Balance,
                        Data |-> coreData, Signers |-> coreSigners,
                        Balances |-> coreTrustlines],
          err |-> NoErr]

\* ------------------------------------------------------------ AccountInfo
\* AccountInfo asking for the signers before the data.
AccountInfoSignersFirst(cq, addr) ==
    LET c1 == Call("AccountByAddress", <<addr>>, cq.account)
        c2 == Call("SignersByAddress", <<addr>>, cq.signers)
        c3 == Call("AllDataByAddress", <<addr>>, cq.data)
        c4 == Call("TrustlinesByAddress", <<addr>>, cq.trustlines)
    IN  IF cq.account.err # NoErr
        THEN Ret(<<>>, Wrap(cq.account.err, "getting core account record"), <<c1>>)
        ELSE IF cq.signers.err # NoErr
        THEN Ret(<<>>, Wrap(cq.signers.err, "getting core signer"), <<c1, c2>>)
        ELSE IF cq.data.err # NoErr
        THEN Ret(<<>>, Wrap(cq.data.err, "getting core account data"), <<c1, c2, c3>>)
        ELSE IF cq.trustlines.err # NoErr
        THEN Ret(<<>>, Wrap(cq.trustlines.err, "getting core trustline"), <<c1, c2, c3, c4>>)
        ELSE LET p == PopulateAccount(cq.account.rows[1], cq.data.rows,
                                      cq.signers.rows, cq.trustlines.rows, cq.populate)
             IN  Ret(<<p.resource>>, Wrap(p.err, "populating account"), <<c1, c2, c3, c4>>)

AccountInfo(cq, addr) ==
    LET c1 == Call("AccountByAddress", <<addr>>, cq.account)
        c2 == Call("AllDataByAddress", <<addr>>, cq.data)
        c3 == Call("SignersByAddress", <<addr>>, cq.signers)
        c4 == Call("TrustlinesByAddress", <<addr>>, cq.trustlines)
    IN  IF cq.account.err # NoErr
        THEN Ret(<<>>, Wrap(cq.account.err, "getting core account record"), <<c1>>)
        ELSE IF cq.data.err # NoErr
        THEN Ret(<<>>, Wrap(cq.data.err, "getting core account data"), <<c1, c2>>)
        ELSE IF cq.signers.err # NoErr
        THEN Ret(<<>>, Wrap(cq.signers.err, "getting core signer"), <<c1, c2, c3>>)
        ELSE IF cq.trustlines.err # NoErr
        THEN Ret(<<>>, Wrap(cq.trustlines.err, "getting core trustline"), <<c1, c2, c3, c4>>)
        ELSE LET p == PopulateAccount(cq.account.rows[1], cq.data.rows,
                                      cq.signers.rows, cq.trustlines.rows, cq.populate)
             IN  Ret(<<p.resource>>, Wrap(p.err, "populating account"), <<c1, c2, c3, c4>>)

\* ------------------------------------------------------------ request helpers
\* A request: page (cursor, limit, order, and whether the three parse), the raw
\* signer parameter and the asset parameters.
GetPageQuery(r) ==
    IF r.page.ok
    THEN [err |-> NoErr, cursor |-> r.page.cursor, limit |-> r.page.limit, order |-> r.page.order]
    ELSE [err |-> <<"invalid page parameters">>, cursor |-> 0, limit |-> 0, order |-> "asc"]

GetString(r) ==
    IF r.signer = "%zz" THEN [err |-> <<"invalid signer encoding">>, val |-> ""]
    ELSE [err |-> NoErr, val |-> r.signer]

GetAsset(r) ==
    IF r.asset = "USD" THEN [err |-> NoErr, val |-> "USD"]
    ELSE [err |-> <<"invalid asset">>, val |-> ""]

GetAccountID(r) ==
    IF r.signer = "GSIGNER" THEN [err |-> NoErr, val |-> "GSIGNER"]
    ELSE [err |-> <<"invalid signer address">>, val |-> ""]

\* ------------------------------------------------------------ GetResourcePage
\* The mode test inverted.
SignerAbsentInverted(rawSigner) == rawSigner # ""

SignerAbsent(rawSigner) == rawSigner = ""

\* No early return on an empty page.
EarlyReturnNever(records) == FALSE

EarlyReturn(records) == Len(records) = 0

\* The identifiers collected without repeats.
AccountIDSDistinct(records) == SortedAsc({records[i].AccountID : i \in 1..Len(records)})

AccountIDS(records) == [i \in 1..Len(records) |-> records[i].AccountID]

\* The lookup ignoring the key it is given.
LookupAnyKey(m, id) == IF DOMAIN m = {} THEN <<>> ELSE m[CHOOSE k \in DOMAIN m : TRUE]

\* s, ok := m[id]; if !ok { s = empty }
Lookup(m, id) == IF id \in DOMAIN m THEN m[id] ELSE <<>>

\* The resources put in front of the page instead of appended to it.
AccountResourcesReversed(records, signers, trustlines, data) ==
    [i \in 1..Len(records) |->
        PopulateAccountEntry(records[Len(records) + 1 - i],
                             Lookup(data, records[Len(records) + 1 - i].AccountID),
                             Lookup(signers, records[Len(records) + 1 - i].AccountID),
                             Lookup(trustlines, records[Len(records) + 1 - i].AccountID))]

AccountResources(records, signers, trustlines, data) ==
    [i \in 1..Len(records) |->
        PopulateAccountEntry(records[i],
                             Lookup(data, records[i].AccountID),
                             Lookup(signers, records[i].AccountID),
                             Lookup(trustlines, records[i].AccountID))]

AccountSignerResources(records) ==
    [i \in 1..Len(records) |-> PopulateAccountSigner(records[i])]

ByAsset(q, r, pq) ==
    LET asset == GetAsset(r)
        base == AccountsForAsset(q, asset.val, pq)
        c0 == Call("AccountsForAsset", <<>>, base)
        accountIDS == AccountIDS(base.rows)
        signers == loadSigners(q, accountIDS)
        c1 == Call("SignersForAccounts", accountIDS, signers)
        trustlines == loadTrustlines(q, accountIDS)
        c2 == Call("GetTrustLinesByAccountsID", accountIDS, trustlines)
        data == loadData(q, accountIDS)
        c3 == Call("GetAccountDataByAccountsID", accountIDS, data)
    IN  IF asset.err # NoErr THEN Ret(<<>>, asset.err, <<>>)
        ELSE IF base.err # NoErr
        THEN Ret(<<>>, Wrap(base.err, "loading account records"), <<c0>>)
        ELSE IF EarlyReturn(base.rows) THEN Ret(<<>>, NoErr, <<c0>>)
        ELSE IF signers.err # NoErr THEN Ret(<<>>, signers.err, <<c0, c1>>)
        ELSE IF trustlines.err # NoErr THEN Ret(<<>>, trustlines.err, <<c0, c1, c2>>)
        ELSE IF data.err # NoErr THEN Ret(<<>>, data.err, <<c0, c1, c2, c3>>)
        ELSE Ret(AccountResources(base.rows, signers.val, trustlines.val, data.val),
                 NoErr, <<c0, c1, c2, c3>>)

\* The by-signer branch querying without the request's cursor.
BySignerFromStart(q, r, pq) ==
    LET signer == GetAccountID(r)
        base == AccountsForSigner(q, signer.val, [pq EXCEPT !.cursor = 0])
        c0 == Call("AccountsForSigner", <<>>, base)
    IN  IF signer.err # NoErr THEN Ret(<<>>, signer.err, <<>>)
        ELSE IF base.err # NoErr
        THEN Ret(<<>>, Wrap(base.err, "loading account records"), <<c0>>)
        ELSE Ret(AccountSignerResources(base.rows), NoErr, <<c0>>)

BySigner(q, r, pq) ==
    LET signer == GetAccountID(r)
        base == AccountsForSigner(q, signer.val, pq)
        c0 == Call("AccountsForSigner", <<>>, base)
    IN  IF signer.err # NoErr THEN Ret(<<>>, signer.err, <<>>)
        ELSE IF base.err # NoErr
        THEN Ret(<<>>, Wrap(base.err, "loading account records"), <<c0>>)
        ELSE Ret(AccountSignerResources(base.rows), NoErr, <<c0>>)

GetResourcePage(q, r) ==
    LET pq == GetPageQuery(r)
        rawSigner == GetString(r)
    IN  IF pq.err # NoErr THEN Ret(<<>>, pq.err, <<>>)
        ELSE IF rawSigner.err # NoErr THEN Ret(<<>>, rawSigner.err, <<>>)
        ELSE IF SignerAbsent(rawSigner.val) THEN ByAsset(q, r, pq)
        ELSE BySigner(q, r, pq)

\* ------------------------------------------------------------ state
VARIABLES
    op,     \* the operation that ran last
    q,      \* the indexed store (handler.HistoryQ) it ran against
    cq,     \* the authoritative store responses AccountInfo ran against
    addr,   \* AccountInfo's address (0: none)
    req,    \* GetResourcePage's request
    out,    \* what the operation returned, and the store calls it issued
    scan    \* a client following cursors: the pages fetched so far

vars == <<op, q, cq, addr, req, out, scan>>

SeqsUpTo(S, n) == UNION {[1..k -> S] : k \in 0..n}

Unused == Ok(<<>>)

EmptyDB == [signerAccounts |-> {}, assetAccounts |-> {}]

Script(ba, bs, s, t, d) ==
    [scripted |-> TRUE, forAsset |-> ba, forSigner |-> bs,
     signers |-> s, trustlines |-> t, data |-> d, db |-> EmptyDB]

Database(db) ==
    [scripted |-> FALSE, forAsset |-> Unused, forSigner |-> Unused,
     signers |-> Unused, trustlines |-> Unused, data |-> Unused, db |-> db]

IdleQ == Script(Unused, Unused, Unused, Unused, Unused)

IdleCQ == [account |-> Unused, data |-> Unused, signers |-> Unused,
           trustlines |-> Unused, populate |-> NoErr]

DefaultPage == [ok |-> TRUE, cursor |-> 0, limit |-> MaxLimit, order |-> "asc"]

BadPage == [ok |-> FALSE, cursor |-> 0, limit |-> 0, order |-> "asc"]

IdleReq == [page |-> DefaultPage, signer |-> "", asset |-> ""]

IdleScan == [pages |-> 0, prev |-> <<>>, seen |-> {}]

Init ==
    /\ op = "none"
    /\ q = IdleQ
    /\ cq = IdleCQ
    /\ addr = 0
    /\ req = IdleReq
    /\ out = Ret(<<>>, NoErr, <<>>)
    /\ scan = IdleScan

\* ------------------------------------------------------------ AccountInfo call
\* Requests share no state: every call starts from the idle state.
\* The responses of the authoritative store: the account row or an error, and
\* for each child query the rows of that address or an error.  A response is
\* drawn only for a query the handler issues.
CoreAccount(a) == {Ok(AccountRows(<<a>>)), Failed(ErrNoRows), Failed(ErrConn)}

CoreData(a) == {Ok(DataRows(Repeat(a, n))) : n \in 0..MaxRows} \cup {Failed(ErrConn)}

CoreSigners(a) == {Ok(SignerRows(Repeat(a, n))) : n \in 0..MaxRows} \cup {Failed(ErrConn)}

CoreTrustlines(a) == {Ok(TrustLineRows(Repeat(a, n))) : n \in 0..MaxRows} \cup {Failed(ErrConn)}

PopulateErrors == {NoErr, <<"invalid asset type">>}

CoreScript(ac, d, s, t, p) ==
    [account |-> ac, data |-> d, signers |-> s, trustlines |-> t, populate |-> p]

CallAccountInfo ==
    /\ op = "none"
    /\ \E a \in Accounts :
       \E ac \in CoreAccount(a) :
       \E d \in IF ac.err = NoErr THEN CoreData(a) ELSE {Unused} :
       \E s \in IF ac.err = NoErr /\ d.err = NoErr THEN CoreSigners(a) ELSE {Unused} :
       \E t \in IF ac.err = NoErr /\ d.err = NoErr /\ s.err = NoErr
                THEN CoreTrustlines(a) ELSE {Unused} :
       \E p \in IF ac.err = NoErr /\ d.err = NoErr /\ s.err = NoErr /\ t.err = NoErr
                THEN PopulateErrors ELSE {NoErr} :
           /\ op' = "AccountInfo"
           /\ cq' = CoreScript(ac, d, s, t, p)
           /\ addr' = a
           /\ out' = AccountInfo(cq', a)
           /\ q' = IdleQ
           /\ req' = IdleReq
           /\ scan' = IdleScan

\* ------------------------------------------------------------ GetResourcePage call
Requests ==
    [page : {DefaultPage, BadPage},
     signer : {"", "GSIGNER", "notanaddress", "%zz"},
     asset : {"", "USD", "bad"}]

AssetBase == {Ok(AccountRows(ids)) : ids \in SeqsUpTo(Accounts, MaxPage)} \cup {Failed(ErrConn)}

SignerBase == {Ok(SignerRows(ids)) : ids \in SeqsUpTo(Accounts, MaxPage)} \cup {Failed(ErrConn)}

BatchSigners == {Ok(SignerRows(ids)) : ids \in SeqsUpTo(Accounts, MaxRows)} \cup {Failed(ErrConn)}

BatchTrustlines == {Ok(TrustLineRows(ids)) : ids \in SeqsUpTo(Accounts, MaxRows)} \cup {Failed(ErrConn)}

BatchData == {Ok(DataRows(ids)) : ids \in SeqsUpTo(Accounts, MaxRows)} \cup {Failed(ErrConn)}

\* Whether the handler, run on request r against store s, issues an n-th store
\* call: a response is drawn only for a query the handler issues.
Issues(s, r, n) == Len(GetResourcePage(s, r).calls) >= n

FirstQuery(r) ==
    LET c == GetResourcePage(IdleQ, r).calls
    IN  IF c = <<>> THEN "" ELSE c[1].op

CallGetResourcePage ==
    /\ op = "none"
    /\ \E r \in Requests :
       \E ba \in IF FirstQuery(r) = "AccountsForAsset" THEN AssetBase ELSE {Unused} :
       \E bs \in IF FirstQuery(r) = "AccountsForSigner" THEN SignerBase ELSE {Unused} :
       \E s \in IF Issues(Script(ba, bs, Unused, Unused, Unused), r, 2)
                THEN BatchSigners ELSE {Unused} :
       \E t \in IF Issues(Script(ba, bs, s, Unused, Unused), r, 3)
                THEN BatchTrustlines ELSE {Unused} :
       \E d \in IF Issues(Script(ba, bs, s, t, Unused), r, 4)
                THEN BatchData ELSE {Unused} :
           /\ op' = "GetResourcePage"
           /\ q' = Script(ba, bs, s, t, d)
           /\ req' = r
           /\ out' = GetResourcePage(q', r)
           /\ cq' = IdleCQ
           /\ addr' = 0
           /\ scan' = IdleScan

\* ------------------------------------------------------------ loader calls
LoadSigners == {Ok(SignerRows(ids)) : ids \in SeqsUpTo(Accounts, MaxLoadRows)} \cup {Failed(ErrConn)}

LoadTrustlines == {Ok(TrustLineRows(ids)) : ids \in SeqsUpTo(Accounts, MaxLoadRows)} \cup {Failed(ErrConn)}

LoadData == {Ok(DataRows(ids)) : ids \in SeqsUpTo(Accounts, MaxLoadRows)} \cup {Failed(ErrConn)}

CallLoadSigners ==
    /\ op = "none"
    /\ \E res \in LoadSigners :
        /\ op' = "loadSigners"
        /\ q' = Script(Unused, Unused, res, Unused, Unused)
        /\ out' = LET m == loadSigners(q', SortedAsc(Accounts)) IN Ret(m.val, m.err, <<>>)
        /\ cq' = IdleCQ
        /\ addr' = 0
        /\ req' = IdleReq
        /\ scan' = IdleScan

CallLoadTrustlines ==
    /\ op = "none"
    /\ \E res \in LoadTrustlines :
        /\ op' = "loadTrustlines"
        /\ q' = Script(Unused, Unused, Unused, res, Unused)
        /\ out' = LET m == loadTrustlines(q', SortedAsc(Accounts)) IN Ret(m.val, m.err, <<>>)
        /\ cq' = IdleCQ
        /\ addr' = 0
        /\ req' = IdleReq
        /\ scan' = IdleScan

CallLoadData ==
    /\ op = "none"
    /\ \E res \in LoadData :
        /\ op' = "loadData"
        /\ q' = Script(Unused, Unused, Unused, Unused, res)
        /\ out' = LET m == loadData(q', SortedAsc(Accounts)) IN Ret(m.val, m.err, <<>>)
        /\ cq' = IdleCQ
        /\ addr' = 0
        /\ req' = IdleReq
        /\ scan' = IdleScan

\* The call returns to its caller and the request's task ends; nothing of it
\* is kept for the next request.
Return ==
    /\ op # "none"
    /\ op' = "none"
    /\ q' = IdleQ
    /\ cq' = IdleCQ
    /\ addr' = 0
    /\ req' = IdleReq
    /\ out' = Ret(<<>>, NoErr, <<>>)
    /\ scan' = IdleScan

Next ==
    \/ Return
    \/ CallAccountInfo
    \/ CallGetResourcePage
    \/ CallLoadSigners
    \/ CallLoadTrustlines
    \/ CallLoadData

Spec == Init /\ [][Next]_vars

\* ------------------------------------------------------------ following cursors
\* A client reads a listing page by page against one database with no writes in
\* between: the first request has no cursor, each later one repeats the filter,
\* order and limit with the cursor set to the account identifier of the last
\* element of the page before.
DBs == [signerAccounts : SUBSET Accounts, assetAccounts : SUBSET Accounts]

InitPages ==
    /\ op = "none"
    /\ q \in {Database(db) : db \in DBs}
    /\ cq = IdleCQ
    /\ addr = 0
    /\ req = IdleReq
    /\ out = Ret(<<>>, NoErr, <<>>)
    /\ scan = IdleScan

PageIds(page) == [i \in 1..Len(page) |-> page[i].AccountID]

IdSet(page) == {page[i].AccountID : i \in 1..Len(page)}

StartScan ==
    /\ op = "none"
    /\ ~q.scripted
    /\ \E signer \in {"", "GSIGNER"}, limit \in 1..MaxLimit, order \in {"asc", "desc"} :
        /\ op' = "GetResourcePage"
        /\ req' = [page |-> [ok |-> TRUE, cursor |-> 0, limit |-> limit, order |-> order],
                   signer |-> signer, asset |-> "USD"]
        /\ out' = GetResourcePage(q, req')
        /\ scan' = [pages |-> 1, prev |-> <<>>, seen |-> {}]
        /\ UNCHANGED <<q, cq, addr>>

NextPage ==
    /\ op = "GetResourcePage"
    /\ ~q.scripted
    /\ out.err = NoErr
    /\ out.val # <<>>
    /\ req' = [req EXCEPT !.page.cursor = out.val[Len(out.val)].AccountID]
    /\ out' = GetResourcePage(q, req')
    /\ scan' = [pages |-> 2, prev |-> PageIds(out.val), seen |-> scan.seen \cup IdSet(out.val)]
    /\ UNCHANGED <<op, q, cq, addr>>

NextPages ==
    \/ StartScan
    \/ NextPage

SpecPages == InitPages /\ [][NextPages]_vars

\* The accounts the request's filter matches in the database.
Matching(db, r) == IF r.signer = "" THEN db.assetAccounts ELSE db.signerAccounts


\* ------------------------------------------------------------ properties
Listing == op = "GetResourcePage"

\* The base query of a listing was issued and answered without error.
AssetPageLoaded ==
    /\ Listing
    /\ out.calls # <<>>
    /\ out.calls[1].op = "AccountsForAsset"
    /\ out.calls[1].ok

SignerPageLoaded ==
    /\ Listing
    /\ out.calls # <<>>
    /\ out.calls[1].op = "AccountsForSigner"
    /\ out.calls[1].ok

BatchQueries == {"SignersForAccounts", "GetTrustLinesByAccountsID", "GetAccountDataByAccountsID"}

CallOps(calls) == [i \in 1..Len(calls) |-> calls[i].op]

IsPrefix(s, t) == Len(s) <= Len(t) /\ \A i \in 1..Len(s) : s[i] = t[i]

\* C1: an asset-filtered listing (no signer parameter) whose base query
\* AccountsForAsset returns zero rows returns an empty sequence and no error,
\* and issues none of the three batch loads.
C1_EmptyAssetPageSkipsBatchLoads ==
    (AssetPageLoaded /\ req.signer = "" /\ q.forAsset.rows = <<>>)
        => /\ out.val = <<>>
           /\ out.err = NoErr
           /\ \A i \in 1..Len(out.calls) : out.calls[i].op \notin BatchQueries

C1_Witness ==
    /\ AssetPageLoaded
    /\ req.signer = ""
    /\ q.forAsset.rows = <<>>
    /\ out.calls = <<[op |-> "AccountsForAsset", ids |-> <<>>, ok |-> TRUE]>>

\* C2: every call of AccountInfo and of GetResourcePage ends either with a
\* resource / page and no error, or with an error and no resource / page,
\* whichever stage failed (a lookup, the base query, a batch load, assembling).
C2_ResourceOrErrorNeverBoth ==
    /\ Listing => (out.err # NoErr => out.val = <<>>)
    /\ op = "AccountInfo" => (IF out.err = NoErr THEN out.val # <<>> ELSE out.val = <<>>)

\* C3: when a store call fails, the error returned is the store's error wrapped
\* with a label naming the failed lookup.
C3_StoreErrorsAreWrapped ==
    (op \in {"AccountInfo", "GetResourcePage"}
        /\ out.calls # <<>> /\ ~out.calls[Len(out.calls)].ok)
        => /\ Len(out.err) = 2
           /\ <<out.err[2]>> \in {ErrNoRows, ErrConn}
           /\ out.err[1] \notin {ErrNoRows[1], ErrConn[1]}

\* C4: when a non-empty signer parameter is present, with or without asset
\* parameters, every returned element has the AccountSigner shape, and neither
\* the by-asset base query nor a batch load is issued.
C4_SignerModePrecedence ==
    (Listing /\ req.signer # "")
        => /\ \A i \in 1..Len(out.val) : out.val[i].kind = "AccountSigner"
           /\ \A i \in 1..Len(out.calls) : out.calls[i].op = "AccountsForSigner"

C4_Witness ==
    /\ Listing
    /\ req.signer = "GSIGNER"
    /\ req.asset = "USD"
    /\ Len(out.val) >= 1
    /\ out.val[1].kind = "AccountSigner"

\* C5: in an Account resource of a by-asset page, every signer, trust-line and
\* data row handed to the assembler carries the account identifier of the base
\* row the resource was built from, whatever the batch queries returned.
C5_NoCrossAccountLeakage ==
    AssetPageLoaded =>
        \A i \in 1..Len(out.val) :
            LET res == out.val[i]
                id == q.forAsset.rows[i].AccountID
            IN  /\ res.AccountID = id
                /\ \A k \in 1..Len(res.Signers) : res.Signers[k].Account = id
                /\ \A k \in 1..Len(res.Balances) : res.Balances[k].AccountID = id
                /\ \A k \in 1..Len(res.Data) : res.Data[k].AccountID = id

\* A resource that received a signer row while the trust-line query returned a
\* row of another account.
C5_Witness ==
    /\ AssetPageLoaded
    /\ \E i \in 1..Len(out.val) :
        /\ Len(out.val[i].Signers) >= 1
        /\ out.val[i].Balances = <<>>
        /\ q.trustlines.rows # <<>>
        /\ q.trustlines.rows[1].AccountID # out.val[i].AccountID

\* C7: a successful listing returns one resource per base row in the order of
\* the base query: the i-th resource is built from the i-th row.
C7_OneResourcePerBaseRowInOrder ==
    /\ (AssetPageLoaded /\ out.err = NoErr)
        => /\ Len(out.val) = Len(q.forAsset.rows)
           /\ \A i \in 1..Len(out.val) :
                /\ out.val[i].AccountID = q.forAsset.rows[i].AccountID
                /\ out.val[i].Balance = q.forAsset.rows[i].Balance
    /\ (SignerPageLoaded /\ out.err = NoErr)
        => /\ Len(out.val) = Len(q.forSigner.rows)
           /\ \A i \in 1..Len(out.val) :
                /\ out.val[i].AccountID = q.forSigner.rows[i].Account
                /\ out.val[i].Weight = q.forSigner.rows[i].Weight

\* A page of two accounts the base query returned in descending order.
C7_Witness ==
    /\ AssetPageLoaded
    /\ out.err = NoErr
    /\ Len(out.val) = 2
    /\ out.val[1].AccountID > out.val[2].AccountID

AccountInfoOrder ==
    <<"AccountByAddress", "AllDataByAddress", "SignersByAddress", "TrustlinesByAddress">>

ByAssetOrder ==
    <<"AccountsForAsset", "SignersForAccounts", "GetTrustLinesByAccountsID",
      "GetAccountDataByAccountsID">>

\* The calls follow the order given, each once, and end at the first failure.
InOrderUntilFailure(calls, order) ==
    /\ calls # <<>>
    /\ IsPrefix(CallOps(calls), order)
    /\ \A i \in 1..(Len(calls) - 1) : calls[i].ok
    /\ calls[Len(calls)].ok => Len(calls) = Len(order)

\* C8: the store calls of a request are issued in a fixed order and stop at the
\* first failure: account, data, signers, trust lines in AccountInfo; the base
\* query, then signers, trust lines, data, each once, in a by-asset listing
\* with a non-empty page.
C8_SequentialCallsStopAtFirstFailure ==
    /\ op = "AccountInfo" => InOrderUntilFailure(out.calls, AccountInfoOrder)
    /\ (AssetPageLoaded /\ q.forAsset.rows # <<>>)
        => /\ InOrderUntilFailure(out.calls, ByAssetOrder)
           /\ Len(out.calls) >= 2
    /\ Listing => \A i \in 1..(Len(out.calls) - 1) : out.calls[i].ok

\* A listing whose trust-line load failed: three calls, the data load not issued.
C8_Witness ==
    /\ AssetPageLoaded
    /\ Len(out.calls) = 3
    /\ ~out.calls[3].ok

LoaderRows ==
    IF op = "loadSigners" THEN q.signers
    ELSE IF op = "loadTrustlines" THEN q.trustlines
    ELSE q.data

RowAccount(row) == IF op = "loadSigners" THEN row.Account ELSE row.AccountID

\* C9: the mapping a batch loader returns holds, under each account identifier,
\* exactly the rows of that account in the order the query returned them;
\* identifiers without rows are absent; when the query fails it is empty.
C9_LoaderGroupsRowsInQueryOrder ==
    (op \in {"loadSigners", "loadTrustlines", "loadData"})
        => IF LoaderRows.err # NoErr
           THEN out.val = EmptyMap /\ out.err = LoaderRows.err
           ELSE /\ out.err = NoErr
                /\ DOMAIN out.val \subseteq Accounts
                /\ \A a \in Accounts :
                    LET own == SelectSeq(LoaderRows.rows, LAMBDA row : RowAccount(row) = a)
                    IN  IF own = <<>> THEN a \notin DOMAIN out.val
                        ELSE a \in DOMAIN out.val /\ out.val[a] = own

\* Rows of two accounts interleaved: the first account has two rows with a row
\* of the other account between them.
C9_Witness ==
    /\ op = "loadSigners"
    /\ Len(q.signers.rows) = 3
    /\ q.signers.rows[1].Account = q.signers.rows[3].Account
    /\ q.signers.rows[1].Account # q.signers.rows[2].Account
    /\ Len(out.val[q.signers.rows[1].Account]) = 2

BatchCalls == {i \in 1..Len(out.calls) : out.calls[i].op \in BatchQueries}

====
